---- MODULE Spec2Model ----
(***************************************************************************)
(* Model of the support bot's inbound pipeline: the orchestrator           *)
(* (main_support_bot.py), the rule-based filter / classifier / directive   *)
(* parser (customer_support_agent.py), the mail transport as the           *)
(* orchestrator sees it (outlook_email_handler.py) and the operator's      *)
(* resolve operation (review_dashboard.py).                                *)
(*                                                                         *)
(* Python strings are TLA+ strings; None is the string NULL.               *)
(***************************************************************************)
EXTENDS Integers, Sequences, FiniteSets, Bags, TLC

\* ------------------------------------------------------------------ bounds
\* number of messages the transport ever delivers
NMsg == 3
\* number of send_reply calls followed per message
MaxSends == 2
\* number of faults followed: process crashes and writes the database refuses
MaxFaults == 1
\* number of words in a text handed directly to one of the agent's functions
MaxWords == 4
\* number of direct calls of the classifier followed one after the other
MaxCalls == 3
\* seconds the clock is followed for
MaxTime == 4
\* number of token requests followed
MaxRequests == 3
\* number of calendar dates followed
MaxDays == 2

\* limit=10 in run_once's call of get_unread_emails
FetchLimit == 10

NULL == "<None>"

\* ------------------------------------------------------- Python str helpers
Max(a, b) == IF a >= b THEN a ELSE b
Min(a, b) == IF a <= b THEN a ELSE b

\* s[i] (1-based), as a one-character string
Ch(s, i) == SubSeq(s, i, i)
\* s[i:] (1-based, inclusive)
From(s, i) == SubSeq(s, i, Len(s))

\* Python: kw in s
Contains(s, kw) ==
    \E i \in 1..(Len(s) - Len(kw) + 1) : SubSeq(s, i, i + Len(kw) - 1) = kw

\* Python: s.startswith(p)
StartsWith(s, p) == Len(s) >= Len(p) /\ SubSeq(s, 1, Len(p)) = p

UpperAlpha == "ABCDEFGHIJKLMNOPQRSTUVWXYZ"
LowerAlpha == "abcdefghijklmnopqrstuvwxyz"
Digits == "0123456789"

IsIn(c, alphabet) == \E i \in 1..Len(alphabet) : Ch(alphabet, i) = c

LowerChar(c) ==
    IF IsIn(c, UpperAlpha)
    THEN Ch(LowerAlpha, CHOOSE i \in 1..Len(UpperAlpha) : Ch(UpperAlpha, i) = c)
    ELSE c

RECURSIVE Lower(_)
\* Python: s.lower()
Lower(s) == IF s = "" THEN "" ELSE LowerChar(Ch(s, 1)) \o Lower(From(s, 2))

IsSpace(c) == c = " " \/ c = "\n" \/ c = "\t"
IsDigit(c) == IsIn(c, Digits)
\* regex \w
IsWord(c) == IsDigit(c) \/ IsIn(c, UpperAlpha) \/ IsIn(c, LowerAlpha) \/ c = "_"

RECURSIVE LStrip(_)
LStrip(s) == IF s # "" /\ IsSpace(Ch(s, 1)) THEN LStrip(From(s, 2)) ELSE s
RECURSIVE RStrip(_)
RStrip(s) ==
    IF s # "" /\ IsSpace(Ch(s, Len(s))) THEN RStrip(SubSeq(s, 1, Len(s) - 1)) ELSE s
\* Python: s.strip()
Strip(s) == RStrip(LStrip(s))

RECURSIVE FirstLine(_)
\* Python: s.split('\n')[0]
FirstLine(s) ==
    IF s = "" \/ Ch(s, 1) = "\n" THEN "" ELSE Ch(s, 1) \o FirstLine(From(s, 2))

RECURSIVE Remove(_, _)
\* Python: s.replace(old, ""), every non-overlapping occurrence, left to right
Remove(s, old) ==
    IF old = "" \/ s = "" THEN s
    ELSE IF StartsWith(s, old) THEN Remove(From(s, Len(old) + 1), old)
    ELSE Ch(s, 1) \o Remove(From(s, 2), old)

\* ----------------------------------------------------------- Sender Filter
blocked_domains ==
    << "aliexpress.com", "shopify.com", "myshopify.com", "noreply", "no-reply",
       "donotreply", "notifications@", "marketing@", "sales@", "support@shopify",
       "alerts@" >>

blocked_keywords ==
    << "aliexpress", "shopify notification", "shopify alert",
       "automatic notification", "system notification" >>

\* a filter that goes through the keyword list before the domain list
is_blocked_sender_keywords_first(sender_email, sender_name) ==
    LET e == Lower(sender_email)
        n == Lower(sender_name)
        doms == {i \in 1..Len(blocked_domains) : Contains(e, blocked_domains[i])}
        kws  == {i \in 1..Len(blocked_keywords) :
                    Contains(n, blocked_keywords[i]) \/ Contains(e, blocked_keywords[i])}
        first(S) == CHOOSE i \in S : \A j \in S : i <= j
    IN  IF kws # {}
        THEN [blocked |-> TRUE, reason |-> "Blocked keyword: " \o blocked_keywords[first(kws)]]
        ELSE IF doms # {}
        THEN [blocked |-> TRUE, reason |-> "Blocked domain: " \o blocked_domains[first(doms)]]
        ELSE [blocked |-> FALSE, reason |-> ""]

\* CustomerSupportAgent.is_blocked_sender: (is_blocked, reason)
is_blocked_sender(sender_email, sender_name) ==
    LET e == Lower(sender_email)
        n == Lower(sender_name)
        doms == {i \in 1..Len(blocked_domains) : Contains(e, blocked_domains[i])}
        kws  == {i \in 1..Len(blocked_keywords) :
                    Contains(n, blocked_keywords[i]) \/ Contains(e, blocked_keywords[i])}
        first(S) == CHOOSE i \in S : \A j \in S : i <= j
    IN  IF doms # {}
        THEN [blocked |-> TRUE, reason |-> "Blocked domain: " \o blocked_domains[first(doms)]]
        ELSE IF kws # {}
        THEN [blocked |-> TRUE, reason |-> "Blocked keyword: " \o blocked_keywords[first(kws)]]
        ELSE [blocked |-> FALSE, reason |-> ""]

\* -------------------------------------------------------- Intent Classifier
spam_keywords ==
    << "seo service", "boost your sales", "increase traffic", "marketing service",
       "grow your business", "website optimization", "google ranking",
       "social media marketing", "advertising opportunity", "partner with us",
       "collaboration opportunity", "influencer", "backlinks", "web design",
       "app development", "consulting" >>

\* the intents dict, in its declaration (= iteration) order
intents ==
    << [intent |-> "tracking",
        keywords |-> << "where is my order", "tracking", "shipped", "delivery",
                        "havent received", "not arrived" >>],
       [intent |-> "return_refund",
        keywords |-> << "return", "refund", "money back", "send back", "exchange" >>],
       [intent |-> "defective",
        keywords |-> << "defective", "broken", "damaged", "wrong item", "missing",
                        "torn" >>],
       [intent |-> "address_change",
        keywords |-> << "change address", "wrong address", "update address",
                        "different address", "ship to" >>],
       [intent |-> "sizing",
        keywords |-> << "too small", "too big", "doesnt fit", "wrong size",
                        "size issue", "fit" >>],
       [intent |-> "general",
        keywords |-> << "question", "info", "how long", "when will", "sizing",
                        "kids" >>] >>

AnyKeyword(text, kws) == \E i \in 1..Len(kws) : Contains(text, kws[i])

\* a classifier whose primary intent is the intent with the most keyword
\* matches (the earlier in declaration order among equals)
classify_email_intent_by_count(email_body, subject) ==
    LET email_lower == Lower(email_body \o " " \o subject)
        count(p) == Cardinality({ k \in 1..Len(p.keywords) :
                                     Contains(email_lower, p.keywords[k]) })
        detected == SelectSeq(intents, LAMBDA p : count(p) > 0)
        detected_intents == [i \in 1..Len(detected) |-> detected[i].intent]
        best == CHOOSE i \in 1..Len(detected) :
                    \A j \in 1..Len(detected) :
                        \/ count(detected[j]) < count(detected[i])
                        \/ count(detected[j]) = count(detected[i]) /\ i <= j
    IN  IF AnyKeyword(email_lower, spam_keywords)
        THEN [is_spam |-> TRUE, intent |-> "spam", all_intents |-> << >>]
        ELSE [is_spam |-> FALSE,
              intent |-> IF detected_intents # << >> THEN detected_intents[best]
                         ELSE "general",
              all_intents |-> detected_intents]

\* CustomerSupportAgent.classify_email_intent
classify_email_intent(email_body, subject) ==
    LET email_lower == Lower(email_body \o " " \o subject)
        detected == SelectSeq(intents, LAMBDA p : AnyKeyword(email_lower, p.keywords))
        detected_intents == [i \in 1..Len(detected) |-> detected[i].intent]
    IN  IF AnyKeyword(email_lower, spam_keywords)
        THEN [is_spam |-> TRUE, intent |-> "spam", all_intents |-> << >>]
        ELSE [is_spam |-> FALSE,
              intent |-> IF detected_intents # << >> THEN detected_intents[1]
                         ELSE "general",
              all_intents |-> detected_intents]

\* -------------------------------------------------- Order Number Extraction
\* number of digits at the start of s[i:], at most 6 ({4,6} is greedy)
RECURSIVE DigitRun(_, _, _)
DigitRun(s, i, n) ==
    IF n < 6 /\ i <= Len(s) /\ IsDigit(Ch(s, i)) THEN DigitRun(s, i + 1, n + 1) ELSE n

RECURSIVE SkipSpace(_, _)
SkipSpace(s, i) == IF i <= Len(s) /\ IsSpace(Ch(s, i)) THEN SkipSpace(s, i + 1) ELSE i

\* r'#(\d{4,6})' matched at position i: the captured group, or NULL
MatchHash(s, i) ==
    IF Ch(s, i) = "#" /\ DigitRun(s, i + 1, 0) >= 4
    THEN SubSeq(s, i + 1, i + DigitRun(s, i + 1, 0))
    ELSE NULL

\* r'order\s*#?\s*(\d{4,6})' with re.IGNORECASE, matched at position i
MatchOrder(s, i) ==
    IF i + 4 <= Len(s) /\ Lower(SubSeq(s, i, i + 4)) = "order"
    THEN LET a == SkipSpace(s, i + 5)
             \* '#?' is greedy; without the '#' the digits start at a
             b == IF a <= Len(s) /\ Ch(s, a) = "#" THEN SkipSpace(s, a + 1) ELSE a
         IN  IF DigitRun(s, b, 0) >= 4 THEN SubSeq(s, b, b + DigitRun(s, b, 0) - 1)
             ELSE NULL
    ELSE NULL

\* r'\b(\d{4,6})\b' matched at position i
MatchBare(s, i) ==
    LET before == i = 1 \/ ~IsWord(Ch(s, i - 1))
        after(k) == i + k > Len(s) \/ ~IsWord(Ch(s, i + k))
        run == DigitRun(s, i, 0)
        lens == {k \in 4..6 : k <= run /\ after(k)}
    IN  IF before /\ lens # {}
        THEN SubSeq(s, i, i + (CHOOSE k \in lens : \A j \in lens : j <= k) - 1)
        ELSE NULL

\* re.search: group 1 of the match at the leftmost position where the pattern,
\* given by its matcher M, matches
Search(s, M(_, _)) ==
    LET hits == {i \in 1..Len(s) : M(s, i) # NULL}
    IN  IF hits = {} THEN NULL ELSE M(s, CHOOSE i \in hits : \A j \in hits : i <= j)

\* re.search with each of the three patterns of the list
SearchHash(s) == Search(s, MatchHash)
SearchOrder(s) == Search(s, MatchOrder)
SearchBare(s) == Search(s, MatchBare)

\* an extractor that returns the match nearest to the start of the text,
\* whichever pattern makes it
extract_order_number_leftmost(text) ==
    LET hits == { i \in 1..Len(text) :
                      \/ MatchHash(text, i) # NULL
                      \/ MatchOrder(text, i) # NULL
                      \/ MatchBare(text, i) # NULL }
        i == CHOOSE i \in hits : \A j \in hits : i <= j
    IN  IF hits = {} THEN NULL
        ELSE IF MatchHash(text, i) # NULL THEN MatchHash(text, i)
        ELSE IF MatchOrder(text, i) # NULL THEN MatchOrder(text, i)
        ELSE MatchBare(text, i)

\* CustomerSupportAgent.extract_order_number
extract_order_number(text) ==
    IF SearchHash(text) # NULL THEN SearchHash(text)
    ELSE IF SearchOrder(text) # NULL THEN SearchOrder(text)
    ELSE SearchBare(text)

\* ---------------------------------------------------------- Directive Parser
\* a parser that takes a directive token wherever it stands in the text
parse_response_token_anywhere(response_text, intent) ==
    LET needs_human == Contains(response_text, "NEEDS_HUMAN_REVIEW:")
        is_spam == Contains(response_text, "SPAM_DETECTED:")
        needs_action == Contains(response_text, "ACTION_REQUIRED:")
        reason_line == FirstLine(response_text)
    IN  [type |-> "customer_inquiry",
         response |-> IF needs_human THEN Strip(Remove(response_text, reason_line))
                      ELSE response_text,
         should_send |-> ~needs_human /\ ~is_spam,
         flag_for_human |-> needs_human,
         human_review_reason |->
             IF needs_human THEN Strip(Remove(reason_line, "NEEDS_HUMAN_REVIEW:"))
             ELSE NULL,
         needs_action |-> needs_action,
         intent |-> intent]

\* CustomerSupportAgent.generate_response, lines 266-287: the result dict built
\* from the policy engine's text and the classification's intent
parse_response(response_text, intent) ==
    LET needs_human == StartsWith(response_text, "NEEDS_HUMAN_REVIEW:")
        is_spam == StartsWith(response_text, "SPAM_DETECTED:")
        needs_action == Contains(response_text, "ACTION_REQUIRED:")
        reason_line == FirstLine(response_text)
    IN  [type |-> "customer_inquiry",
         response |-> IF needs_human THEN Strip(Remove(response_text, reason_line))
                      ELSE response_text,
         should_send |-> ~needs_human /\ ~is_spam,
         flag_for_human |-> needs_human,
         human_review_reason |->
             IF needs_human THEN Strip(Remove(reason_line, "NEEDS_HUMAN_REVIEW:"))
             ELSE NULL,
         needs_action |-> needs_action,
         intent |-> intent]


\* ------------------------------------------------------------ the mailbox
\* The messages the transport delivers, oldest first; message m is the m-th
\* to arrive (ids beyond the catalogue repeat it).
Catalogue ==
    << [from_email |-> "amy@mail.com", from_name |-> "Amy",
        subject |-> "Where is my order?", body |-> "order #1234 not here"],
       [from_email |-> "NoReply@shopify.com", from_name |-> "Shopify",
        subject |-> "Payout", body |-> "seo service for order #5678"],
       [from_email |-> "bob@web.io", from_name |-> "",
        subject |-> "Hi", body |-> "We offer SEO Service 4321"],
       [from_email |-> "deals@mail.com", from_name |-> "AliExpress Deals",
        subject |-> "RE: refund", body |-> "Where is my order 7777"] >>

MsgIds == 1..NMsg

\* the dict get_unread_emails builds for message m
Mail == [m \in MsgIds |->
            [id |-> m] @@ Catalogue[((m - 1) % Len(Catalogue)) + 1]]

\* OutlookEmailHandler.get_unread_emails: the unread messages, most recent
\* first ($orderby receivedDateTime desc), at most limit ($top) of them
RECURSIVE Descending(_)
Descending(S) ==
    IF S = {} THEN << >>
    ELSE LET hi == CHOOSE a \in S : \A b \in S : b <= a
         IN  << hi >> \o Descending(S \ {hi})

get_unread_emails(unreadIds, limit) ==
    SubSeq(Descending(unreadIds), 1, Min(limit, Cardinality(unreadIds)))

\* --------------------------------------------------------- the order store
\* orders held by the store, most recent first
Orders ==
    << [order_number |-> "9000", email |-> "bob@web.io"],
       [order_number |-> "1234", email |-> "amy@mail.com"],
       [order_number |-> "1200", email |-> "amy@mail.com"] >>

NoOrder == [order_number |-> NULL, email |-> NULL]

\* ShopifyIntegration.find_order_by_number; ok = the request succeeded
find_order_by_number(order_number, ok) ==
    LET hits == SelectSeq(Orders, LAMBDA o : o.order_number = order_number)
    IN  IF ok /\ hits # << >> THEN hits[1] ELSE NoOrder

\* ShopifyIntegration.find_order_by_email
find_order_by_email(email, limit, ok) ==
    LET hits == SelectSeq(Orders, LAMBDA o : o.email = email)
    IN  IF ok THEN SubSeq(hits, 1, Min(limit, Len(hits))) ELSE << >>

\* a resolver that asks the store by sender email first and by number only
\* when the sender has no order
resolve_order_email_first(email, okNumber, okEmail) ==
    LET extracted == extract_order_number(email.subject \o " " \o email.body)
        byEmail == find_order_by_email(email.from_email, 1, okEmail)
        byNumber == find_order_by_number(extracted, okNumber)
    IN  IF byEmail # << >>
        THEN [order_number |-> byEmail[1].order_number, order_context |-> byEmail[1],
              calls |-> << "extract_order_number", "find_order_by_email" >>]
        ELSE [order_number |-> extracted, order_context |-> byNumber,
              calls |-> << "extract_order_number", "find_order_by_email",
                           "find_order_by_number" >>]

\* process_email, lines 174-192: order_number and order_context carried on
resolve_order(email, okNumber, okEmail) ==
    LET extracted == extract_order_number(email.subject \o " " \o email.body)
        byNumber == find_order_by_number(extracted, okNumber)
        byEmail == find_order_by_email(email.from_email,
                                       IF extracted # NULL THEN 10 ELSE 1, okEmail)
    IN  IF extracted # NULL /\ byNumber # NoOrder
        THEN [order_number |-> extracted, order_context |-> byNumber,
              calls |-> << "extract_order_number", "find_order_by_number" >>]
        ELSE [order_number |-> IF byEmail # << >> THEN byEmail[1].order_number
                               ELSE extracted,
              order_context |-> IF byEmail # << >> THEN byEmail[1] ELSE NoOrder,
              calls |-> IF extracted # NULL
                        THEN << "extract_order_number", "find_order_by_number",
                                "find_order_by_email" >>
                        ELSE << "extract_order_number", "find_order_by_email" >>]

\* ------------------------------------------------------- the policy engine
\* what client.messages.create may return as message.content[0].text
PolicyTexts ==
    << "Thanks! It is on the way.",
       "NEEDS_HUMAN_REVIEW: Not received - 10 days Overdue\nSo sorry.",
       "SPAM_DETECTED: sales pitch",
       "",
       "Done. ACTION_REQUIRED: update_address" >>

\* the call raised instead (the text of the exception)
PolicyErrors == << "timeout" >>

\* generate_response's three result shapes; a key a shape lacks is NULL
SpamResponse ==
    [type |-> "spam", response |-> NULL, should_send |-> FALSE,
     flag_for_human |-> FALSE, human_review_reason |-> NULL,
     needs_action |-> FALSE, intent |-> NULL]

\* an error result that does not ask for a human
ErrorResponse_not_flagged(e) ==
    [type |-> "error", response |-> NULL, should_send |-> FALSE,
     flag_for_human |-> FALSE, human_review_reason |-> "AI error: " \o e,
     needs_action |-> FALSE, intent |-> NULL]

\* generate_response, lines 289-297: the policy engine call raised e
ErrorResponse(e) ==
    [type |-> "error", response |-> NULL, should_send |-> FALSE,
     flag_for_human |-> TRUE, human_review_reason |-> "AI error: " \o e,
     needs_action |-> FALSE, intent |-> NULL]

\* CustomerSupportAgent.generate_response; reply = the policy engine's answer,
\* [raised, text]
generate_response(email, reply) ==
    LET classification == classify_email_intent(email.body, email.subject)
    IN  IF classification.is_spam THEN SpamResponse
        ELSE IF reply.raised THEN ErrorResponse(reply.text)
        ELSE parse_response(reply.text, classification.intent)

\* the calls generate_response makes
generate_response_calls(email) ==
    IF classify_email_intent(email.body, email.subject).is_spam
    THEN << "classify_email_intent" >>
    ELSE << "classify_email_intent", "messages.create" >>

\* the answers of the policy engine that are tried
PolicyReplies ==
    [i \in 1..Len(PolicyTexts) |-> [raised |-> FALSE, text |-> PolicyTexts[i]]]
    \o [i \in 1..Len(PolicyErrors) |-> [raised |-> TRUE, text |-> PolicyErrors[i]]]

\* a processed_emails table whose email_id column is not a key: no row is ever
\* found to be in the way
LedgerKeyExists_no_key(l, email_id) == FALSE

\* ------------------------------------------------------------ the database
\* the index of processed_emails' PRIMARY KEY email_id
LedgerKeyExists(l, email_id) == \E r \in BagToSet(l) : r.email_id = email_id

\* the gate with its result ignored: every message is run through the pipeline
is_email_processed_ignored(l, email_id) == FALSE

\* SupportBot.is_email_processed
is_email_processed(l, email_id) == LedgerKeyExists(l, email_id)

\* SupportBot.mark_email_processed: the INSERT, refused on a duplicate key
mark_email_processed(l, email, response_sent, flagged, order_number, intent) ==
    IF LedgerKeyExists(l, email.id)
    THEN [raised |-> TRUE, ledger |-> l]
    ELSE [raised |-> FALSE,
          ledger |-> l (+) SetToBag({[email_id |-> email.id,
                                      customer_email |-> email.from_email,
                                      subject |-> email.subject,
                                      response_sent |-> response_sent,
                                      flagged_for_review |-> flagged,
                                      order_number |-> order_number,
                                      intent |-> intent]})]

\* the priority heuristic with the reason compared as it is written
review_priority_case_sensitive(reason) ==
    IF Contains(reason, "overdue") THEN "high" ELSE "medium"

\* process_email, line 212
review_priority(reason) == IF Contains(Lower(reason), "overdue") THEN "high" ELSE "medium"

\* SupportBot.add_to_review_queue: the INSERT; the row's id is its position
review_item(email, order_number, reason, priority) ==
    [email_id |-> email.id, order_number |-> order_number,
     customer_email |-> email.from_email, reason |-> reason,
     priority |-> priority, status |-> "pending", resolved_at |-> NULL,
     resolved_by |-> NULL]

\* SQLite's comparison of two TEXT values of lower-case letters (the BINARY
\* collation compares byte by byte, a prefix before its extensions)
CharCode(c) == CHOOSE i \in 1..Len(LowerAlpha) : Ch(LowerAlpha, i) = c

RECURSIVE TextLess(_, _)
TextLess(a, b) ==
    IF b = "" THEN FALSE
    ELSE IF a = "" THEN TRUE
    ELSE IF Ch(a, 1) # Ch(b, 1) THEN CharCode(Ch(a, 1)) < CharCode(Ch(b, 1))
    ELSE TextLess(From(a, 2), From(b, 2))

\* ORDER BY priority DESC, created_at ASC: row i of q comes before row j
\* (created_at is the time of the INSERT, so it grows with the id)
OrderedBefore(q, i, j) ==
    \/ TextLess(q[j].priority, q[i].priority)
    \/ q[i].priority = q[j].priority /\ i < j

\* the rows with the ids in S, in the ORDER BY order
RECURSIVE OrderBy(_, _)
OrderBy(q, S) ==
    IF S = {} THEN << >>
    ELSE LET i == CHOOSE i \in S : \A j \in S \ {i} : OrderedBefore(q, i, j)
         IN  << [id |-> i] @@ q[i] >> \o OrderBy(q, S \ {i})

\* ReviewDashboard.get_pending_reviews
get_pending_reviews(q) == OrderBy(q, { i \in DOMAIN q : q[i].status = "pending" })

\* the resolutions the operator makes: who resolves ('manual' is the default of
\* resolved_by) and what datetime.now().isoformat() returns at that moment
Resolutions ==
    { [resolved_by |-> "manual", now |-> "2024-05-01T09:00:00"],
      [resolved_by |-> "ops", now |-> "2024-05-02T09:00:00"] }

\* an UPDATE without its WHERE clause: every item is resolved
mark_resolved_every_item(q, review_id, resolved_by, now) ==
    [i \in DOMAIN q |->
        [q[i] EXCEPT !.status = "resolved", !.resolved_at = now,
                     !.resolved_by = resolved_by]]

\* a resolve that toggles: an item that is resolved is put back to pending
mark_resolved_toggles(q, review_id, resolved_by, now) ==
    [i \in DOMAIN q |->
        IF i # review_id THEN q[i]
        ELSE IF q[i].status = "resolved"
        THEN [q[i] EXCEPT !.status = "pending", !.resolved_at = NULL,
                          !.resolved_by = NULL]
        ELSE [q[i] EXCEPT !.status = "resolved", !.resolved_at = now,
                          !.resolved_by = resolved_by]]

\* a resolve that deletes the item instead of updating it
mark_resolved_deletes(q, review_id, resolved_by, now) ==
    IF review_id \in DOMAIN q
    THEN SubSeq(q, 1, review_id - 1) \o SubSeq(q, review_id + 1, Len(q))
    ELSE q

\* ReviewDashboard.mark_resolved: the UPDATE ... WHERE id = ?
mark_resolved(q, review_id, resolved_by, now) ==
    [i \in DOMAIN q |->
        IF i = review_id
        THEN [q[i] EXCEPT !.status = "resolved", !.resolved_at = now,
                          !.resolved_by = resolved_by]
        ELSE q[i]]

\* process_email, line 162
customer_name(email) == IF email.from_name # "" THEN email.from_name ELSE "Valued Customer"

\* process_email, line 166: the filter's verdict on each message
Filtered ==
    [m \in MsgIds |-> is_blocked_sender(Mail[m].from_email, customer_name(Mail[m]))]

\* a process_email that calls the filter and ignores its verdict
sender_blocked_ignored(m) == FALSE

\* process_email, line 167: the filter blocks message m
sender_blocked(m) == Filtered[m].blocked

\* generate_response, line 211: the classification of each message
Classified ==
    [m \in MsgIds |-> classify_email_intent(Mail[m].body, Mail[m].subject)]

\* process_email, lines 174-192, for each message and each pair of request results
Resolved ==
    [m \in MsgIds, okNumber \in BOOLEAN, okEmail \in BOOLEAN |->
        resolve_order(Mail[m], okNumber, okEmail)]

\* process_email, lines 194-200, for each message and each policy engine answer
Generated ==
    [m \in MsgIds, r \in DOMAIN PolicyReplies |->
        [ai_response |-> generate_response(Mail[m], PolicyReplies[r]),
         calls |-> generate_response_calls(Mail[m])]]

\* process_email, line 212, for each reason generate_response can give
review_priorities ==
    [reason \in { Generated[m, r].ai_response.human_review_reason :
                      m \in MsgIds, r \in DOMAIN PolicyReplies }
        |-> review_priority(reason)]

\* ================================================================= state
VARIABLES
    arrived,       \* the transport has delivered messages 1..arrived
    unread,        \* the delivered messages with isRead = false
    ledger,        \* table processed_emails, a bag of rows
    queue,         \* table human_review_queue; an item's id is its position
    slack,         \* self.slack is set (a webhook URL is configured)
    pc,            \* where the bot process is
    emails,        \* run_once's batch
    idx,           \* position of the for loop in the batch
    loc,           \* process_email's locals order_number and ai_response
    run,           \* the current or latest process_email run: its message, whether
                   \* the ledger held a row for it at the start, the policy
                   \* engine's answer (0: not asked) and the outcome
    calls,         \* the calls that run has made, in order
    sendAttempts,  \* per message, how often send_reply was called for it
    faults,        \* crashes and refused database writes so far
    probe,         \* the latest direct call of one of the agent's functions: the
                   \* function, its arguments, what it returned, and the calls
                   \* made before it (arguments and result of each)
    handler,       \* the OutlookEmailHandler's access_token and token_expiry
                   \* (token_expiry is << >> for None, else << the time >>)
    clock,         \* datetime.now(), in seconds since the bot started
    auth,          \* the authenticate calls so far: how many requested a token,
                   \* and the caller and the course of the latest
    summary        \* the daily summary's schedule: summary_email and
                   \* last_summary_date of the running process (<< >> for None),
                   \* the date and hour in the summary's timezone, the number
                   \* of the process run, the summaries sent (date and
                   \* process run of each) and the course of the latest check

vars == << arrived, unread, ledger, queue, slack, pc, emails, idx, loc, run, calls,
           sendAttempts, faults, probe, handler, clock, auth, summary >>

NoLoc == [order_number |-> NULL, ai_response |-> NULL]
NoProbe == [op |-> NULL, args |-> << >>, result |-> NULL, earlier |-> << >>]
NoRun == [msg |-> 0, had_row |-> FALSE, reply |-> 0, outcome |-> "NONE"]

Outcomes ==
    { "SKIPPED_DUPLICATE", "BLOCKED", "SPAM", "ESCALATED", "SENT", "SEND_FAILED",
      "NO_ACTION", "RAISED" }

\* the state after SupportBot.__init__ on an empty database and mailbox
Init ==
    /\ arrived = 0
    /\ unread = {}
    /\ ledger = EmptyBag
    /\ queue = << >>
    /\ slack \in BOOLEAN
    /\ pc = "idle"
    /\ emails = << >>
    /\ idx = 0
    /\ loc = NoLoc
    /\ run = NoRun
    /\ calls = << >>
    /\ sendAttempts = [m \in MsgIds |-> 0]
    /\ faults = 0
    /\ probe = NoProbe
    /\ handler = [access_token |-> NULL, token_expiry |-> << >>]
    /\ clock = 0
    /\ auth = [requests |-> 0, caller |-> NULL, last |-> NULL]
    /\ summary = [summary_email |-> "ops@shop.com", last_summary_date |-> << >>,
                  date |-> 1, hour |-> 0, process |-> 0, sent |-> << >>,
                  last |-> NULL]

\* the message process_email is running on
cur == Mail[emails[idx]]

\* the ledger holds a row for message m
HasRow(m) == \E r \in BagToSet(ledger) : r.email_id = m

\* the record of a process_email run that starts on cur
NewRun(reply, outcome) ==
    [msg |-> cur.id, had_row |-> HasRow(cur.id), reply |-> reply, outcome |-> outcome]

\* -------------------------------------------------------------- environment
\* The transport receives the next message.  (A message that arrives during a
\* batch is first seen by the next fetch, so arrivals are taken between cycles.)
Deliver ==
    /\ pc = "idle"
    /\ arrived < NMsg
    /\ arrived' = arrived + 1
    /\ unread' = unread \cup {arrived + 1}
    /\ UNCHANGED << ledger, queue, slack, probe, handler, clock, auth, summary, pc, emails, idx, loc, run, calls,
                    sendAttempts, faults >>

\* a resolve that also clears the ledger rows of the item's message
MarkResolved_clears_ledger(review_id, resolved_by, now) ==
    /\ pc = "idle"
    /\ queue' = mark_resolved(queue, review_id, resolved_by, now)
    /\ ledger' = IF review_id \in DOMAIN queue
                 THEN [r \in { x \in BagToSet(ledger) :
                                  x.email_id # queue[review_id].email_id }
                          |-> CopiesIn(r, ledger)]
                 ELSE ledger
    /\ UNCHANGED << arrived, unread, slack, probe, handler, clock, auth, summary, pc, emails, idx, loc, run, calls,
                    sendAttempts, faults >>

\* DailySummary.send_daily_summary: get_daily_stats reads both tables with
\* SELECT statements only and the summary is mailed to the operator; nothing of
\* the bot's state, its tables or its mailbox is written
SendDailySummary ==
    /\ pc = "idle"
    /\ UNCHANGED vars

\* The operator resolves review_id at time now; the id may name no item.  (The
\* bot never reads the queue, so the operator's steps are taken between cycles.)
MarkResolved(review_id, resolved_by, now) ==
    /\ pc = "idle"
    /\ queue' = mark_resolved(queue, review_id, resolved_by, now)
    /\ UNCHANGED << arrived, unread, ledger, slack, probe, handler, clock, auth, summary, pc, emails, idx, loc, run, calls,
                    sendAttempts, faults >>

\* the process dies while it works on a batch and is started again: everything
\* in memory is lost
Crash ==
    /\ pc \notin {"idle", "cycle_end", "auth_failed"}
    /\ faults < MaxFaults
    /\ faults' = faults + 1
    /\ pc' = "idle"
    /\ emails' = << >>
    /\ idx' = 0
    /\ loc' = NoLoc
    /\ run' = NoRun
    /\ calls' = << >>
    /\ UNCHANGED << arrived, unread, ledger, queue, slack, probe, handler, clock, auth, summary, sendAttempts >>

\* ------------------------------------------------------------------ run_once
\* a run_once that reports the failed authentication and fetches all the same
RunOnceAuthFailed_fetches_anyway ==
    /\ pc = "idle"
    /\ pc' = "auth_failed"
    /\ calls' = IF slack THEN << "notify_error" >> ELSE << >>
    /\ emails' = get_unread_emails(unread, FetchLimit)
    /\ UNCHANGED << arrived, unread, ledger, queue, slack, probe, handler, clock, auth, summary, idx, loc, run,
                    sendAttempts, faults >>

\* run_once, lines 255-259: authentication fails, the failure is reported and
\* run_once returns
RunOnceAuthFailed ==
    /\ pc = "idle"
    /\ pc' = "auth_failed"
    /\ calls' = IF slack THEN << "notify_error" >> ELSE << >>
    /\ UNCHANGED << arrived, unread, ledger, queue, slack, probe, handler, clock, auth, summary, emails, idx, loc, run,
                    sendAttempts, faults >>

\* run_once, lines 261-268: the batch is fetched (fetched = FALSE: the request
\* failed and get_unread_emails returned [])
RunOnceFetch(fetched) ==
    /\ pc = "idle"
    /\ LET batch == IF fetched THEN get_unread_emails(unread, FetchLimit) ELSE << >>
       IN  /\ emails' = batch
           /\ idx' = IF batch = << >> THEN 0 ELSE 1
           /\ pc' = IF batch = << >> THEN "idle" ELSE "process_email"
    /\ UNCHANGED << arrived, unread, ledger, queue, slack, probe, handler, clock, auth, summary, loc, run, calls,
                    sendAttempts, faults >>

\* run_once, lines 259 and 281, and run_continuous, lines 320-337: run_once
\* returns and the process sleeps until the next cycle (the log of the last run
\* is dropped)
RunOnceReturn ==
    /\ pc \in {"cycle_end", "auth_failed"}
    /\ pc' = "idle"
    /\ run' = NoRun
    /\ calls' = << >>
    /\ UNCHANGED << arrived, unread, ledger, queue, slack, probe, handler, clock, auth, summary, emails, idx, loc,
                    sendAttempts, faults >>

\* run_once, lines 269-272: process_email has returned or raised on cur and the
\* for loop goes on
EndRun(r) ==
    /\ run' = r
    /\ loc' = NoLoc
    /\ IF idx < Len(emails)
       THEN pc' = "process_email" /\ idx' = idx + 1 /\ emails' = emails
       ELSE pc' = "cycle_end" /\ idx' = 0 /\ emails' = << >>

\* a for loop without its try: the exception leaves run_once and is caught and
\* reported by run_continuous, and the rest of the batch is dropped
Raised_aborts_batch(log) ==
    /\ calls' = IF slack THEN Append(log, "notify_error") ELSE log
    /\ run' = [run EXCEPT !.outcome = "RAISED"]
    /\ loc' = NoLoc
    /\ pc' = "cycle_end"
    /\ idx' = 0
    /\ emails' = << >>

\* run_once, lines 273-279: the exception is caught and reported
Raised(log) ==
    /\ calls' = IF slack THEN Append(log, "notify_error") ELSE log
    /\ EndRun([run EXCEPT !.outcome = "RAISED"])

\* ------------------------------------------------------------- process_email
\* process_email, lines 152-156: the ledger gate
SkipProcessed ==
    /\ pc = "process_email"
    /\ is_email_processed(ledger, cur.id)
    /\ calls' = << >>
    /\ EndRun(NewRun(0, "SKIPPED_DUPLICATE"))
    /\ UNCHANGED << arrived, unread, ledger, queue, slack, probe, handler, clock, auth, summary, sendAttempts, faults >>

\* process_email, lines 166-168: the sender filter blocks
FilterBlocks ==
    /\ pc = "process_email"
    /\ ~is_email_processed(ledger, cur.id)
    /\ sender_blocked(cur.id)
    /\ run' = NewRun(0, "RUNNING")
    /\ calls' = << "is_blocked_sender" >>
    /\ pc' = "blocked_ledger"
    /\ UNCHANGED << arrived, unread, ledger, queue, slack, probe, handler, clock, auth, summary, emails, idx, loc,
                    sendAttempts, faults >>

\* a process_email that holds a result with needs_action back for a human
dispatch_holds_action(ai_response) ==
    IF ai_response.type = "spam" THEN "spam_ledger"
    ELSE IF ai_response.flag_for_human \/ ai_response.needs_action
    THEN "add_to_review_queue"
    ELSE IF ai_response.should_send /\ ai_response.response \notin {NULL, ""}
    THEN "send_reply"
    ELSE "return"

\* where process_email goes with ai_response, lines 202-247
dispatch(ai_response) ==
    IF ai_response.type = "spam" THEN "spam_ledger"
    ELSE IF ai_response.flag_for_human THEN "add_to_review_queue"
    ELSE IF ai_response.should_send /\ ai_response.response \notin {NULL, ""}
    THEN "send_reply"
    ELSE "return"

\* process_email, lines 166-200 and the branch taken at 202-247: the sender is
\* not blocked, the order is resolved and the response generated from the
\* policy engine's answer PolicyReplies[reply]
Evaluate(okNumber, okEmail, reply) ==
    /\ pc = "process_email"
    /\ ~is_email_processed(ledger, cur.id)
    /\ ~sender_blocked(cur.id)
    /\ LET order == Resolved[cur.id, okNumber, okEmail]
           ai_response == Generated[cur.id, reply].ai_response
       IN  /\ calls' = << "is_blocked_sender" >> \o order.calls
                          \o Generated[cur.id, reply].calls
           /\ IF dispatch(ai_response) = "return"
              THEN \* line 247
                   EndRun(NewRun(reply, "NO_ACTION"))
              ELSE /\ run' = NewRun(reply, "RUNNING")
                   /\ loc' = [order_number |-> order.order_number,
                              ai_response |-> ai_response]
                   /\ pc' = dispatch(ai_response)
                   /\ UNCHANGED << emails, idx >>
    /\ UNCHANGED << arrived, unread, ledger, queue, slack, probe, handler, clock, auth, summary, sendAttempts, faults >>

\* the blocked sender recorded with the spam branch's arguments
blocked_ledger_args_as_spam ==
    [response_sent |-> FALSE, flagged |-> FALSE, order_number |-> NULL,
     intent |-> "spam"]

\* the escalation recorded as not flagged
review_ledger_args_unflagged ==
    [response_sent |-> FALSE, flagged |-> FALSE, order_number |-> loc.order_number,
     intent |-> loc.ai_response.intent]

\* the sent reply recorded with the intent left out
sent_ledger_args_no_intent ==
    [response_sent |-> TRUE, flagged |-> FALSE, order_number |-> loc.order_number,
     intent |-> NULL]

\* the sent reply recorded as escalated as well
sent_ledger_args_flagged ==
    [response_sent |-> TRUE, flagged |-> TRUE, order_number |-> loc.order_number,
     intent |-> loc.ai_response.intent]

\* the arguments of the four mark_email_processed calls
\* process_email, lines 169-170
blocked_ledger_args ==
    [response_sent |-> FALSE, flagged |-> FALSE, order_number |-> NULL,
     intent |-> "blocked_sender"]

\* process_email, lines 204-205
spam_ledger_args ==
    [response_sent |-> FALSE, flagged |-> FALSE, order_number |-> loc.order_number,
     intent |-> "spam"]

\* process_email, lines 222-223
review_ledger_args ==
    [response_sent |-> FALSE, flagged |-> TRUE, order_number |-> loc.order_number,
     intent |-> loc.ai_response.intent]

\* process_email, lines 240-241
sent_ledger_args ==
    [response_sent |-> TRUE, flagged |-> FALSE, order_number |-> loc.order_number,
     intent |-> loc.ai_response.intent]

\* the call made at pc, and where process_email goes after it
ledger_args ==
    CASE pc = "blocked_ledger" -> [args |-> blocked_ledger_args, then |-> "blocked_read"]
      [] pc = "spam_ledger" -> [args |-> spam_ledger_args, then |-> "spam_read"]
      [] pc = "review_ledger" -> [args |-> review_ledger_args, then |-> "review_read"]
      [] pc = "sent_ledger" -> [args |-> sent_ledger_args, then |-> "return"]

\* process_email, lines 169, 204, 222 and 240: the ledger write (stored = FALSE:
\* the database refuses the write and sqlite3 raises)
MarkProcessed(stored) ==
    /\ pc \in {"blocked_ledger", "spam_ledger", "review_ledger", "sent_ledger"}
    /\ stored \/ faults < MaxFaults
    /\ faults' = IF stored THEN faults ELSE faults + 1
    /\ LET a == ledger_args
           w == mark_email_processed(ledger, cur, a.args.response_sent,
                                     a.args.flagged, a.args.order_number,
                                     a.args.intent)
       IN  IF stored /\ ~w.raised
           THEN /\ ledger' = w.ledger
                /\ calls' = Append(calls, "mark_email_processed")
                /\ IF a.then = "return"
                   THEN EndRun([run EXCEPT !.outcome = "SENT"])
                   ELSE /\ pc' = a.then
                        /\ UNCHANGED << emails, idx, loc, run >>
           ELSE /\ ledger' = ledger
                /\ Raised(Append(calls, "mark_email_processed"))
    /\ UNCHANGED << arrived, unread, queue, slack, probe, handler, clock, auth, summary, sendAttempts >>

\* process_email, lines 171, 206, 224 and 239: mark_as_read, whose result is
\* ignored (marked = FALSE: the request failed)
MarkAsRead(marked) ==
    /\ pc \in {"blocked_read", "spam_read", "review_read", "sent_read"}
    /\ unread' = IF marked THEN unread \ {cur.id} ELSE unread
    /\ calls' = Append(calls, "mark_as_read")
    /\ CASE pc = "blocked_read" -> EndRun([run EXCEPT !.outcome = "BLOCKED"])
         [] pc = "spam_read" -> EndRun([run EXCEPT !.outcome = "SPAM"])
         [] pc = "review_read" -> EndRun([run EXCEPT !.outcome = "ESCALATED"])
         [] pc = "sent_read" ->
                /\ pc' = "sent_ledger"
                /\ UNCHANGED << emails, idx, loc, run >>
    /\ UNCHANGED << arrived, ledger, queue, slack, probe, handler, clock, auth, summary, sendAttempts, faults >>

\* an add_to_review_queue in which a notification that fails raises
AddToReviewQueue_notify_raises(stored, notified) ==
    /\ pc = "add_to_review_queue"
    /\ stored \/ faults < MaxFaults
    /\ notified \/ (slack /\ stored)
    /\ faults' = IF stored THEN faults ELSE faults + 1
    /\ LET reason == loc.ai_response.human_review_reason
           item == review_item(cur,
                               IF loc.order_number \notin {NULL, ""}
                               THEN loc.order_number ELSE "N/A",
                               reason, review_priorities[reason])
       IN  IF stored /\ notified
           THEN /\ queue' = Append(queue, item)
                /\ calls' = calls \o << "add_to_review_queue" >>
                              \o (IF slack THEN << "notify_human_review_needed" >>
                                  ELSE << >>)
                /\ pc' = "review_ledger"
                /\ UNCHANGED << emails, idx, loc, run >>
           ELSE /\ queue' = IF stored THEN Append(queue, item) ELSE queue
                /\ Raised(calls \o << "add_to_review_queue" >>
                            \o (IF stored
                                THEN << "notify_human_review_needed",
                                        "send_notification_failed" >>
                                ELSE << >>))
    /\ UNCHANGED << arrived, unread, ledger, slack, probe, handler, clock, auth, summary, sendAttempts >>

\* process_email, lines 209-220, and add_to_review_queue (stored = FALSE: the
\* database refuses the INSERT and sqlite3 raises; notified = FALSE: the
\* notifier is configured and send_notification fails, which it reports by
\* printing the error and returning False, a result add_to_review_queue drops)
AddToReviewQueue(stored, notified) ==
    /\ pc = "add_to_review_queue"
    /\ stored \/ faults < MaxFaults
    /\ notified \/ (slack /\ stored)
    /\ faults' = IF stored THEN faults ELSE faults + 1
    /\ LET reason == loc.ai_response.human_review_reason
           item == review_item(cur,
                               IF loc.order_number \notin {NULL, ""}
                               THEN loc.order_number ELSE "N/A",
                               reason, review_priorities[reason])
       IN  IF stored
           THEN /\ queue' = Append(queue, item)
                /\ calls' = calls \o << "add_to_review_queue" >>
                              \o (IF slack THEN << "notify_human_review_needed" >>
                                  ELSE << >>)
                              \o (IF notified THEN << >>
                                  ELSE << "send_notification_failed" >>)
                /\ pc' = "review_ledger"
                /\ UNCHANGED << emails, idx, loc, run >>
           ELSE /\ queue' = queue
                /\ Raised(Append(calls, "add_to_review_queue"))
    /\ UNCHANGED << arrived, unread, ledger, slack, probe, handler, clock, auth, summary, sendAttempts >>

\* a send branch that marks the message read whether or not the send succeeded
SendReply_marks_read_on_failure(sent) ==
    /\ pc = "send_reply"
    /\ sendAttempts[cur.id] < MaxSends
    /\ sendAttempts' = [sendAttempts EXCEPT ![cur.id] = @ + 1]
    /\ IF sent
       THEN /\ calls' = Append(calls, "send_reply")
            /\ unread' = unread
            /\ pc' = "sent_read"
            /\ UNCHANGED << emails, idx, loc, run >>
       ELSE /\ calls' = calls \o << "send_reply", "mark_as_read" >>
            /\ unread' = unread \ {cur.id}
            /\ EndRun([run EXCEPT !.outcome = "SEND_FAILED"])
    /\ UNCHANGED << arrived, ledger, queue, slack, probe, handler, clock, auth, summary, faults >>

\* process_email, lines 227-245: the reply is sent (sent = FALSE: send_reply
\* returned False)
SendReply(sent) ==
    /\ pc = "send_reply"
    /\ sendAttempts[cur.id] < MaxSends
    /\ sendAttempts' = [sendAttempts EXCEPT ![cur.id] = @ + 1]
    /\ calls' = Append(calls, "send_reply")
    /\ IF sent
       THEN /\ pc' = "sent_read"
            /\ UNCHANGED << emails, idx, loc, run >>
       ELSE EndRun([run EXCEPT !.outcome = "SEND_FAILED"])
    /\ UNCHANGED << arrived, unread, ledger, queue, slack, probe, handler, clock, auth, summary, faults >>

\* ------------------------------------------------- the agent called directly
\* The agent's functions take no state of the bot: each is called here on
\* arguments of its own, as a test of the agent calls it (one call is followed,
\* and for the classifier a sequence of calls).
bot == << arrived, unread, ledger, queue, slack, pc, emails, idx, loc, run, calls,
          sendAttempts, faults, handler, clock, auth, summary >>

\* the words texts are made of, and the texts of at most MaxWords words
Words == << "#", "Order ", "1234", "56", "x" >>

RECURSIVE Concat(_)
Concat(ws) == IF ws = << >> THEN "" ELSE Words[Head(ws)] \o Concat(Tail(ws))

Texts == { Concat(ws) : ws \in UNION { [1..n -> DOMAIN Words] : n \in 0..MaxWords } }

\* the messages the resolver is called on: senders with and without orders in
\* the store, texts with and without an order number the store knows
ResolverMails ==
    { [id |-> 0, from_email |-> f, from_name |-> "", subject |-> "Hi", body |-> b] :
          f \in { "amy@mail.com", "bob@web.io", "zed@mail.com" },
          b \in { "order #1200 not here", "where is it", "order #9999 late",
                  "We offer SEO Service 4321" } }

\* extract_order_number called on text
CallExtractOrderNumber(text) ==
    /\ probe = NoProbe
    /\ probe' = [op |-> "extract_order_number", args |-> << text >>,
                 result |-> extract_order_number(text), earlier |-> << >>]
    /\ UNCHANGED bot

\* process_email, lines 174-200, on email: the order is resolved and
\* generate_response is called with what was found
CallResolveOrder(email, okNumber, okEmail) ==
    /\ probe = NoProbe
    /\ probe' = [op |-> "resolve_order", args |-> << email, okNumber, okEmail >>,
                 result |-> [order |-> resolve_order(email, okNumber, okEmail),
                             then |-> generate_response_calls(email)],
                 earlier |-> << >>]
    /\ UNCHANGED bot

\* the bodies and subjects the classifier is called on
ClassifierBodies ==
    { "We offer SEO", "refund, return, exchange my Tracking", "hello",
      "Too big, doesnt FIT" }
ClassifierSubjects == { "Service", "Kids sizing" }

\* a classifier that keeps detected_intents on the agent instead of in a local:
\* what the call before detected is still in the list
CallClassifyEmailIntent_remembers(email_body, subject) ==
    /\ probe.op \in { NULL, "classify_email_intent" }
    /\ Len(probe.earlier) < MaxCalls - 1
    /\ LET fresh == classify_email_intent(email_body, subject)
           detected_intents ==
               (IF probe.op = NULL THEN << >> ELSE probe.result.all_intents)
                   \o fresh.all_intents
       IN  probe' = [op |-> "classify_email_intent",
                     args |-> << email_body, subject >>,
                     result |-> IF fresh.is_spam THEN fresh
                                ELSE [is_spam |-> FALSE,
                                      intent |-> IF detected_intents # << >>
                                                 THEN detected_intents[1]
                                                 ELSE "general",
                                      all_intents |-> detected_intents],
                     earlier |-> IF probe.op = NULL THEN << >>
                                 ELSE Append(probe.earlier,
                                             [args |-> probe.args,
                                              result |-> probe.result])]
    /\ UNCHANGED bot

\* classify_email_intent called on (email_body, subject), after the calls made
\* before
CallClassifyEmailIntent(email_body, subject) ==
    /\ probe.op \in { NULL, "classify_email_intent" }
    /\ Len(probe.earlier) < MaxCalls - 1
    /\ probe' = [op |-> "classify_email_intent", args |-> << email_body, subject >>,
                 result |-> classify_email_intent(email_body, subject),
                 earlier |-> IF probe.op = NULL THEN << >>
                             ELSE Append(probe.earlier,
                                         [args |-> probe.args, result |-> probe.result])]
    /\ UNCHANGED bot

\* the addresses and display names the filter is called on
SenderEmails ==
    { "noreply@aliexpress.com", "Sales@Shop.io", "jane@yahoo.com",
      "info@myshopify.com", "bot@aliexpress.cn" }
SenderNames == { "", "Shopify Notification", "John Doe", "AliExpress" }

\* is_blocked_sender called on (sender_email, sender_name)
CallIsBlockedSender(sender_email, sender_name) ==
    /\ probe = NoProbe
    /\ probe' = [op |-> "is_blocked_sender", args |-> << sender_email, sender_name >>,
                 result |-> is_blocked_sender(sender_email, sender_name),
                 earlier |-> << >>]
    /\ UNCHANGED bot

\* the words the policy engine's texts are made of, and its texts of at most
\* MaxWords words
ReplyWords == << "NEEDS_HUMAN_REVIEW:", "SPAM_DETECTED:", " late", "\n", "Hi" >>

RECURSIVE ConcatReply(_)
ConcatReply(ws) ==
    IF ws = << >> THEN "" ELSE ReplyWords[Head(ws)] \o ConcatReply(Tail(ws))

ReplyTexts ==
    { ConcatReply(ws) : ws \in UNION { [1..n -> DOMAIN ReplyWords] : n \in 0..MaxWords } }

\* generate_response called on a customer's message, the policy engine
\* answering response_text, and the branch process_email takes with the result
CallGenerateResponse(response_text) ==
    /\ probe = NoProbe
    /\ LET email == [id |-> 0] @@ Catalogue[1]
           ai_response == generate_response(email, [raised |-> FALSE,
                                                    text |-> response_text])
       IN  probe' = [op |-> "generate_response", args |-> << response_text >>,
                     result |-> [ai_response |-> ai_response,
                                 then |-> dispatch(ai_response)],
                     earlier |-> << >>]
    /\ UNCHANGED bot

NextAgent ==
    \/ \E response_text \in ReplyTexts : CallGenerateResponse(response_text)
    \/ \E sender_email \in SenderEmails, sender_name \in SenderNames :
           CallIsBlockedSender(sender_email, sender_name)
    \/ \E email_body \in ClassifierBodies, subject \in ClassifierSubjects :
           CallClassifyEmailIntent(email_body, subject)
    \/ \E text \in Texts : CallExtractOrderNumber(text)
    \/ \E email \in ResolverMails, okNumber \in BOOLEAN, okEmail \in BOOLEAN :
           CallResolveOrder(email, okNumber, okEmail)

SpecAgent == Init /\ [][NextAgent]_vars

\* ------------------------------------------------------- the transport's token
\* what the token endpoint may answer: an error, or a token that expires in
\* expires_in seconds (the handler takes 60 seconds off)
TokenReplies ==
    { [ok |-> FALSE, expires_in |-> 0] }
        \cup { [ok |-> TRUE, expires_in |-> e] : e \in { 60, 61, 62 } }

\* run_once and the handler's operations, each of which starts with authenticate
Callers == { "run_once", "get_unread_emails", "send_reply", "mark_as_read" }

\* an authenticate without the test of the cached token: every call requests
authenticate_always_requests(h, t, reply, token) ==
    IF reply.ok
    THEN [handler |-> [access_token |-> token,
                       token_expiry |-> << t + reply.expires_in - 60 >>],
          result |-> TRUE, course |-> "refreshed"]
    ELSE [handler |-> h, result |-> FALSE, course |-> "failed"]

\* OutlookEmailHandler.authenticate at time t, the token endpoint answering
\* reply (with the access token named token) if it is asked
authenticate(h, t, reply, token) ==
    IF h.access_token # NULL /\ h.token_expiry # << >> /\ t < h.token_expiry[1]
    THEN [handler |-> h, result |-> TRUE, course |-> "cached"]
    ELSE IF reply.ok
    THEN [handler |-> [access_token |-> token,
                       token_expiry |-> << t + reply.expires_in - 60 >>],
          result |-> TRUE, course |-> "refreshed"]
    ELSE [handler |-> h, result |-> FALSE, course |-> "failed"]

\* a second passes
Tick ==
    /\ clock < MaxTime
    /\ clock' = clock + 1
    /\ UNCHANGED << arrived, unread, ledger, queue, slack, pc, emails, idx, loc, run,
                    calls, sendAttempts, faults, probe, handler, auth, summary >>

\* caller calls authenticate; the tokens the endpoint issues are "a", "b", ...
Authenticate(caller, reply) ==
    LET a == authenticate(handler, clock, reply, Ch(LowerAlpha, auth.requests + 1))
    IN  /\ a.course = "cached" \/ auth.requests < MaxRequests
        /\ handler' = a.handler
        /\ auth' = [requests |-> IF a.course = "cached" THEN auth.requests
                                 ELSE auth.requests + 1,
                    caller |-> caller, last |-> a.course]
        /\ UNCHANGED << arrived, unread, ledger, queue, slack, pc, emails, idx, loc,
                        run, calls, sendAttempts, faults, probe, clock, summary >>

NextOutlook ==
    \/ Tick
    \/ \E caller \in Callers, reply \in TokenReplies : Authenticate(caller, reply)

SpecOutlook == Init /\ [][NextOutlook]_vars

\* ------------------------------------------------------- the daily summary
\* config.get('summary_hour', 8)
summary_hour == 8

\* what summary_email may be configured as (None: no summary)
SummaryEmails == { NULL, "ops@shop.com" }

\* the wall clock of the summary's timezone moves on by an hour
NextHour ==
    /\ summary.hour < 23 \/ summary.date < MaxDays
    /\ summary' = IF summary.hour < 23
                  THEN [summary EXCEPT !.hour = @ + 1]
                  ELSE [summary EXCEPT !.hour = 0, !.date = @ + 1]
    /\ UNCHANGED << arrived, unread, ledger, queue, slack, pc, emails, idx, loc, run,
                    calls, sendAttempts, faults, probe, handler, clock, auth >>

\* the process is stopped and started again with summary_email configured as
\* email: __init__ sets last_summary_date to None
Restart(email) ==
    /\ summary.process < MaxFaults
    /\ summary' = [summary EXCEPT !.process = @ + 1, !.summary_email = email,
                                  !.last_summary_date = << >>, !.last = NULL]
    /\ UNCHANGED << arrived, unread, ledger, queue, slack, pc, emails, idx, loc, run,
                    calls, sendAttempts, faults, probe, handler, clock, auth >>

\* a check that takes the date as sent whether or not the send succeeded
CheckAndSendDailySummary_marks_on_failure(success) ==
    /\ Len(summary.sent) <= MaxDays * (MaxFaults + 1)
    /\ summary' =
           IF summary.summary_email = NULL
           THEN [summary EXCEPT !.last = "off"]
           ELSE IF summary.hour = summary_hour
                   /\ summary.last_summary_date # << summary.date >>
           THEN [summary EXCEPT
                    !.last_summary_date = << summary.date >>,
                    !.sent = IF success
                             THEN Append(@, [date |-> summary.date,
                                             process |-> summary.process])
                             ELSE @,
                    !.last = IF success THEN "sent" ELSE "failed"]
           ELSE [summary EXCEPT !.last = "not due"]
    /\ UNCHANGED << arrived, unread, ledger, queue, slack, pc, emails, idx, loc, run,
                    calls, sendAttempts, faults, probe, handler, clock, auth >>

\* SupportBot.check_and_send_daily_summary, called in every iteration of
\* run_continuous (success = FALSE: send_daily_summary returned False or raised)
CheckAndSendDailySummary(success) ==
    /\ Len(summary.sent) <= MaxDays * (MaxFaults + 1)
    /\ summary' =
           IF summary.summary_email = NULL
           THEN [summary EXCEPT !.last = "off"]
           ELSE IF summary.hour = summary_hour
                   /\ summary.last_summary_date # << summary.date >>
           THEN IF success
                THEN [summary EXCEPT
                         !.last_summary_date = << summary.date >>,
                         !.sent = Append(@, [date |-> summary.date,
                                             process |-> summary.process]),
                         !.last = "sent"]
                ELSE [summary EXCEPT !.last = "failed"]
           ELSE [summary EXCEPT !.last = "not due"]
    /\ UNCHANGED << arrived, unread, ledger, queue, slack, pc, emails, idx, loc, run,
                    calls, sendAttempts, faults, probe, handler, clock, auth >>

NextSummary ==
    \/ NextHour
    \/ \E email \in SummaryEmails : Restart(email)
    \/ \E success \in BOOLEAN : CheckAndSendDailySummary(success)

SpecSummary == Init /\ [][NextSummary]_vars

\* the bot process and the mail transport
Next ==
    \/ Deliver
    \/ Crash
    \/ RunOnceAuthFailed
    \/ \E fetched \in BOOLEAN : RunOnceFetch(fetched)
    \/ RunOnceReturn
    \/ SkipProcessed
    \/ FilterBlocks
    \/ \E okNumber \in BOOLEAN, okEmail \in BOOLEAN, reply \in DOMAIN PolicyReplies :
           Evaluate(okNumber, okEmail, reply)
    \/ \E stored \in BOOLEAN : MarkProcessed(stored)
    \/ \E marked \in BOOLEAN : MarkAsRead(marked)
    \/ \E stored \in BOOLEAN, notified \in BOOLEAN : AddToReviewQueue(stored, notified)
    \/ \E sent \in BOOLEAN : SendReply(sent)

Spec == Init /\ [][Next]_vars

\* The steps of the bot process of a deployment whose collaborators succeed in
\* the end: the policy engine answers as it likes, a mark-read may fail, and
\* the database refuses at most MaxFaults writes.
RunContinuous ==
    \/ RunOnceFetch(TRUE)
    \/ RunOnceReturn
    \/ SkipProcessed
    \/ FilterBlocks
    \/ \E okNumber \in BOOLEAN, okEmail \in BOOLEAN, reply \in DOMAIN PolicyReplies :
           Evaluate(okNumber, okEmail, reply)
    \/ \E stored \in BOOLEAN : MarkProcessed(stored)
    \/ \E marked \in BOOLEAN : MarkAsRead(marked)
    \/ \E stored \in BOOLEAN, notified \in BOOLEAN : AddToReviewQueue(stored, notified)
    \/ SendReply(TRUE)

NextProgress ==
    \/ Deliver
    \/ RunContinuous

\* run_continuous loops for ever: the bot's next step is always taken in the end
SpecProgress == Init /\ [][NextProgress]_vars /\ WF_vars(RunContinuous)

\* The operator at the dashboard and the daily summary, beside the transport and a bot whose only
\* failures are the policy engine's and the database's (a refused write is what
\* lets one message be put on the queue twice).
NextDashboard ==
    \/ Deliver
    \/ RunOnceFetch(TRUE)
    \/ RunOnceReturn
    \/ SkipProcessed
    \/ FilterBlocks
    \/ \E okNumber \in BOOLEAN, okEmail \in BOOLEAN, reply \in DOMAIN PolicyReplies :
           Evaluate(okNumber, okEmail, reply)
    \/ \E stored \in BOOLEAN : MarkProcessed(stored)
    \/ \E marked \in BOOLEAN : MarkAsRead(marked)
    \/ \E stored \in BOOLEAN, notified \in BOOLEAN : AddToReviewQueue(stored, notified)
    \/ SendReply(TRUE)
    \/ \E review_id \in 1..(Len(queue) + 1), r \in Resolutions :
           MarkResolved(review_id, r.resolved_by, r.now)
    \/ SendDailySummary

SpecDashboard == Init /\ [][NextDashboard]_vars

\* ===================================================================== claims
\* the rows the ledger holds for message m, and how many there are
RowsFor(m) == { r \in BagToSet(ledger) : r.email_id = m }
RowCount(m) == BagCardinality([r \in RowsFor(m) |-> CopiesIn(r, ledger)])

\* how often the current or latest run has made call c
Made(c) == Cardinality({ i \in DOMAIN calls : calls[i] = c })

\* process_email has returned (not raised) on run.msg
Returned == run.outcome \in Outcomes \ {"RAISED"}

\* what the policy engine answered in each case of PolicyReplies
AsksReview ==
    [r \in DOMAIN PolicyReplies |->
        ~PolicyReplies[r].raised
        /\ StartsWith(PolicyReplies[r].text, "NEEDS_HUMAN_REVIEW:")]
SaysSpam ==
    [r \in DOMAIN PolicyReplies |->
        ~PolicyReplies[r].raised /\ StartsWith(PolicyReplies[r].text, "SPAM_DETECTED:")]
PlainReply ==
    [r \in DOMAIN PolicyReplies |->
        /\ ~PolicyReplies[r].raised
        /\ ~AsksReview[r]
        /\ ~SaysSpam[r]
        /\ PolicyReplies[r].text # ""]

\* C1: whatever cycles, restarts and repeated deliveries have happened, the
\* ledger holds at most one row for each message id.
C1_OneRowPerMessage == \A m \in MsgIds : RowCount(m) <= 1

\* C1's case: after a restart, a message that has its row is fetched again and
\* passes through process_email a second time
C1_Witness ==
    /\ faults > 0
    /\ run.outcome = "SKIPPED_DUPLICATE"
    /\ RowCount(run.msg) = 1

\* C2 as stated, its send half: however often a message id is processed,
\* send_reply is attempted at most once for it.
C2_AtMostOneSendAttempt == \A m \in MsgIds : sendAttempts[m] <= 1

\* C2, amended: processing a message id in any number of invocations leaves at
\* most one ledger row for it, and once that row exists no invocation attempts
\* send_reply for it (an invocation that ends in SEND_FAILED writes no row, and
\* the next one attempts the send again).
C2_NoSendOnceLedgered ==
    [][\A m \in MsgIds :
          /\ RowCount(m) <= 1
          /\ RowCount(m) >= 1 => sendAttempts'[m] = sendAttempts[m]]_vars

\* C2's case: a message processed in two invocations, the first of which
\* failed to send, the second of which sent and wrote the row
C2_Witness ==
    \E m \in MsgIds : sendAttempts[m] = 2 /\ RowCount(m) = 1

\* C3: every process_email run on a message without a ledger row that returns
\* has written a ledger row, created an escalation item or attempted a send.
C3_EveryRunActs ==
    (Returned /\ ~run.had_row)
        => \/ Made("mark_email_processed") > 0
           \/ Made("add_to_review_queue") > 0
           \/ Made("send_reply") > 0

\* C4: when the ledger holds a row for the message, the process_email step on
\* it returns at once with no call made, and leaves ledger, review queue,
\* mailbox and send attempts as they were.
C4_DuplicateHasNoEffects ==
    [][(pc = "process_email" /\ RowCount(emails[idx]) >= 1 /\ faults' = faults)
          => /\ run'.outcome = "SKIPPED_DUPLICATE"
             /\ calls' = << >>
             /\ ledger' = ledger
             /\ queue' = queue
             /\ unread' = unread
             /\ sendAttempts' = sendAttempts]_vars

\* C4's case: a run on a ledgered message of a sender the filter does not
\* block has returned
C4_Witness ==
    /\ run.outcome = "SKIPPED_DUPLICATE"
    /\ run.had_row
    /\ ~Filtered[run.msg].blocked

\* C5: a run on a message whose sender the filter blocks calls neither the
\* classifier, nor the order store, nor the policy engine.
C5_BlockedNeverEvaluated ==
    (run.msg \in MsgIds /\ Filtered[run.msg].blocked)
        => \A i \in DOMAIN calls :
               calls[i] \notin { "classify_email_intent", "extract_order_number",
                                 "find_order_by_number", "find_order_by_email",
                                 "messages.create" }

\* C5's case: a blocked sender's message that names an order and that the
\* classifier would flag has been through process_email
C5_Witness ==
    /\ run.outcome = "BLOCKED"
    /\ Filtered[run.msg].blocked
    /\ Classified[run.msg].is_spam
    /\ extract_order_number(Mail[run.msg].body) # NULL

\* C6: a blocked sender's message gets a ledger row with intent
\* 'blocked_sender', reply_sent false and escalated false, and mark-read is
\* requested for it; when a later cycle fetches it again it is skipped as a
\* duplicate, with no call made.
C6_BlockedLedgeredOnce ==
    /\ \A r \in BagToSet(ledger) :
           Filtered[r.email_id].blocked
               => /\ r.intent = "blocked_sender"
                  /\ ~r.response_sent
                  /\ ~r.flagged_for_review
    /\ (Returned /\ Filtered[run.msg].blocked /\ ~run.had_row)
           => /\ run.outcome = "BLOCKED"
              /\ RowCount(run.msg) = 1
              /\ Made("mark_as_read") = 1
    /\ (run.msg \in MsgIds /\ Filtered[run.msg].blocked /\ run.had_row)
           => /\ run.outcome = "SKIPPED_DUPLICATE"
              /\ calls = << >>

\* C6's case: a blocked sender's message, recorded and still unread, has been
\* fetched again and skipped
C6_Witness ==
    /\ run.msg \in MsgIds
    /\ Filtered[run.msg].blocked
    /\ run.had_row
    /\ run.outcome = "SKIPPED_DUPLICATE"
    /\ \E r \in RowsFor(run.msg) : r.intent = "blocked_sender"

\* C7: when the classifier flags a message of a sender that is not blocked as
\* spam, or the policy text for it starts with SPAM_DETECTED:, the run that
\* returns on it has written a ledger row with intent 'spam' and has sent no
\* reply.
C7_SpamSignalsEndInSpam ==
    (/\ Returned
     /\ ~run.had_row
     /\ ~Filtered[run.msg].blocked
     /\ \/ Classified[run.msg].is_spam
        \/ run.reply # 0 /\ SaysSpam[run.reply])
        => /\ run.outcome = "SPAM"
           /\ \E r \in RowsFor(run.msg) : r.intent = "spam"
           /\ Made("send_reply") = 0

\* C8: when the policy text for a message that is neither blocked nor flagged
\* by the classifier starts with NEEDS_HUMAN_REVIEW:, the run that returns on
\* it ends in ESCALATED: it has created exactly one pending escalation item
\* for the message, written a ledger row with escalated true and reply_sent
\* false, never called send_reply, and fired one review notification when a
\* notifier is configured.
C8_ReviewDirectiveEscalates ==
    (/\ Returned
     /\ ~run.had_row
     /\ ~Filtered[run.msg].blocked
     /\ ~Classified[run.msg].is_spam
     /\ run.reply # 0
     /\ AsksReview[run.reply])
        => /\ run.outcome = "ESCALATED"
           /\ Made("add_to_review_queue") = 1
           /\ queue # << >>
           /\ queue[Len(queue)].email_id = run.msg
           /\ queue[Len(queue)].status = "pending"
           /\ RowCount(run.msg) = 1
           /\ \A r \in RowsFor(run.msg) : r.flagged_for_review /\ ~r.response_sent
           /\ Made("send_reply") = 0
           /\ Made("notify_human_review_needed") = (IF slack THEN 1 ELSE 0)

\* C8's case: with a notifier configured, a run has escalated a message for
\* which the policy engine asked for review
C8_Witness ==
    /\ run.outcome = "ESCALATED"
    /\ slack
    /\ run.reply # 0
    /\ AsksReview[run.reply]
    /\ Made("notify_human_review_needed") = 1

\* C9: a run in which send_reply reports failure writes no ledger row, creates
\* no escalation item and does not request mark-read: the message is still
\* unread and without a ledger row, so the gate lets the next run on it through.
C9_SendFailureLeavesNoTrace ==
    run.outcome = "SEND_FAILED"
        => /\ RowCount(run.msg) = 0
           /\ ~is_email_processed(ledger, run.msg)
           /\ run.msg \in unread
           /\ Made("mark_email_processed") = 0
           /\ Made("add_to_review_queue") = 0
           /\ Made("mark_as_read") = 0
           /\ Made("send_reply") = 1

\* C9's case: a message whose send failed was fetched by a later cycle, went
\* through the whole pipeline again, and its send failed again
C9_Witness ==
    /\ run.outcome = "SEND_FAILED"
    /\ sendAttempts[run.msg] = 2
    /\ Made("messages.create") = 1

\* C10: for a message that is neither blocked nor flagged by the classifier,
\* a policy text with no directive and a non-empty body, and a send that
\* succeeds, the run that returns ends in SENT: the ledger has one row for the
\* message, with reply_sent true, escalated false and the classifier's primary
\* intent, and mark-read was requested.
C10_PlainReplySent ==
    (/\ Returned
     /\ ~run.had_row
     /\ ~Filtered[run.msg].blocked
     /\ ~Classified[run.msg].is_spam
     /\ run.reply # 0
     /\ PlainReply[run.reply]
     /\ run.outcome # "SEND_FAILED")
        => /\ run.outcome = "SENT"
           /\ RowCount(run.msg) = 1
           /\ \A r \in RowsFor(run.msg) :
                  /\ r.response_sent
                  /\ ~r.flagged_for_review
                  /\ r.intent = Classified[run.msg].intent
           /\ Made("send_reply") = 1
           /\ Made("mark_as_read") = 1

\* C10's case: a reply to a tracking question has been sent and recorded
C10_Witness ==
    /\ run.outcome = "SENT"
    /\ run.reply # 0
    /\ PlainReply[run.reply]
    /\ Classified[run.msg].intent = "tracking"

\* the triage rank of a priority: high before medium before low
TriageRank(priority) ==
    CASE priority = "high" -> 3
      [] priority = "medium" -> 2
      [] priority = "low" -> 1

\* C11: for every queue content, get_pending_reviews returns exactly the
\* pending items, those of priority high before those of medium before those
\* of low, and among items of equal priority the older before the newer.
C11_PendingInTriageOrder ==
    LET listed == get_pending_reviews(queue)
    IN  /\ { listed[k].id : k \in DOMAIN listed }
             = { i \in DOMAIN queue : queue[i].status = "pending" }
        /\ \A a \in DOMAIN listed, b \in DOMAIN listed :
               a < b => \/ TriageRank(listed[a].priority) > TriageRank(listed[b].priority)
                        \/ /\ listed[a].priority = listed[b].priority
                           /\ listed[a].id < listed[b].id

\* C12: resolving an item that is already resolved, by whomever and whenever,
\* changes nothing: its status, resolved_at and resolved_by stay as the first
\* resolution stamped them.
C12_ResolveResolvedIsNoOp ==
    \A i \in DOMAIN queue, r \in Resolutions :
        queue[i].status = "resolved"
            => mark_resolved(queue, i, r.resolved_by, r.now) = queue

\* the reasons the pipeline can put on the queue, and whether each contains
\* 'overdue' in any mix of upper and lower case
Reasons ==
    { Generated[m, r].ai_response.human_review_reason :
          m \in MsgIds, r \in DOMAIN PolicyReplies }
MentionsOverdue ==
    [reason \in Reasons |->
        \E i \in 1..Len(reason) :
            i + 6 <= Len(reason) /\ Lower(SubSeq(reason, i, i + 6)) = "overdue"]

\* C13: every item on the queue has priority 'high' if its reason contains
\* 'overdue' in any case and 'medium' if not; none has priority 'low'.
C13_PriorityFromReason ==
    \A i \in DOMAIN queue :
        /\ queue[i].priority = (IF MentionsOverdue[queue[i].reason] THEN "high"
                                ELSE "medium")
        /\ queue[i].priority # "low"

\* C13's case: the queue holds an item whose reason says 'Overdue' with a
\* capital and an item whose reason does not mention it
C13_Witness ==
    /\ \E i \in DOMAIN queue :
           /\ Contains(queue[i].reason, "Overdue")
           /\ queue[i].priority = "high"
    /\ \E i \in DOMAIN queue :
           /\ ~MentionsOverdue[queue[i].reason]
           /\ queue[i].priority = "medium"

\* C14: every item enters the queue with status pending, the status of every
\* item is pending or resolved, and whatever the bot and the operator do, an
\* item that is resolved stays resolved.
C14_StatusMonotonic ==
    [][/\ \A i \in DOMAIN queue' : queue'[i].status \in {"pending", "resolved"}
       /\ \A i \in DOMAIN queue' \ DOMAIN queue : queue'[i].status = "pending"
       /\ \A i \in DOMAIN queue :
              queue[i].status = "resolved"
                  => i \in DOMAIN queue' /\ queue'[i].status = "resolved"]_vars

\* C14's case: an item was resolved and the pipeline has enqueued another
\* item after it
C14_Witness ==
    \E i \in DOMAIN queue, j \in DOMAIN queue :
        i < j /\ queue[i].status = "resolved" /\ queue[j].status = "pending"

\* C15: no step of the bot or the operator removes an item from the queue or
\* changes the priority, message id, order number, sender or reason of an item
\* that is on it.
C15_ItemsFixedAndKept ==
    [][/\ Len(queue') >= Len(queue)
       /\ \A i \in DOMAIN queue :
              /\ queue'[i].priority = queue[i].priority
              /\ queue'[i].email_id = queue[i].email_id
              /\ queue'[i].order_number = queue[i].order_number
              /\ queue'[i].customer_email = queue[i].customer_email
              /\ queue'[i].reason = queue[i].reason]_vars

\* C15's case: the operator has resolved every one of several items, of
\* different priorities
C15_Witness ==
    /\ Len(queue) >= 2
    /\ \A i \in DOMAIN queue : queue[i].status = "resolved"
    /\ \E i \in DOMAIN queue, j \in DOMAIN queue : queue[i].priority # queue[j].priority

\* C16: a resolve changes only the status, resolved_at and resolved_by of the
\* item with the id given and leaves every other item, the ledger and the
\* mailbox as they were; with an id that no item has it changes nothing.
C16_ResolveTouchesOneItem ==
    /\ [][(pc = "idle" /\ queue' # queue)
             => /\ Len(queue') = Len(queue)
                /\ \E id \in DOMAIN queue :
                       /\ \A i \in DOMAIN queue \ {id} : queue'[i] = queue[i]
                       /\ queue'[id].status = "resolved"
                       /\ queue'[id] = [queue[id] EXCEPT
                                           !.status = queue'[id].status,
                                           !.resolved_at = queue'[id].resolved_at,
                                           !.resolved_by = queue'[id].resolved_by]
                /\ UNCHANGED << arrived, unread, ledger, slack, probe, handler, clock, auth, summary, pc, emails, idx, loc,
                                run, calls, sendAttempts, faults >>]_vars
    /\ [](\A id \in {0, Len(queue) + 1}, r \in Resolutions :
              mark_resolved(queue, id, r.resolved_by, r.now) = queue)

\* C16's case: with rows in the ledger, the newer of two items has been
\* resolved and the older one is still pending
C16_Witness ==
    /\ ledger # EmptyBag
    /\ \E i \in DOMAIN queue, j \in DOMAIN queue :
           i < j /\ queue[i].status = "pending" /\ queue[j].status = "resolved"

\* C17: when process_email raises on a message, the exception is caught and
\* (with a notifier configured) reported, and the batch goes on: the next
\* message of the batch, if there is one, is the next to be processed, and a
\* message to be processed is always one of the batch.
C17_RaiseDoesNotEndBatch ==
    /\ [][(run.outcome = "RUNNING" /\ run'.outcome = "RAISED")
             => /\ slack => calls'[Len(calls')] = "notify_error"
                /\ IF idx < Len(emails)
                   THEN pc' = "process_email" /\ idx' = idx + 1 /\ emails' = emails
                   ELSE pc' = "cycle_end"]_vars
    /\ [](pc = "process_email" => idx \in DOMAIN emails)

\* C17's case: the run on the first message of a batch has raised, the error
\* was reported, and the second message is about to be processed
C17_Witness ==
    /\ run.outcome = "RAISED"
    /\ slack
    /\ Made("notify_error") = 1
    /\ pc = "process_email"
    /\ idx = 2
    /\ emails[1] = run.msg

\* C18: a cycle whose authentication fails fetches and processes nothing and
\* leaves ledger, review queue and mailbox as they were, and the process goes
\* back to waiting for the next cycle.
C18_AuthFailureSkipsCycle ==
    /\ [](pc = "auth_failed" => emails = << >> /\ idx = 0 /\ run = NoRun /\ loc = NoLoc)
    /\ [][(pc = "auth_failed" \/ pc' = "auth_failed")
             => /\ ledger' = ledger
                /\ queue' = queue
                /\ unread' = unread
                /\ sendAttempts' = sendAttempts
                /\ pc = "auth_failed" => pc' = "idle"]_vars

\* C18's case: authentication has failed in a cycle that had unread mail to
\* fetch, after earlier cycles had written to the ledger
C18_Witness ==
    /\ pc = "auth_failed"
    /\ unread # {}
    /\ ledger # EmptyBag

\* C19: when send_reply has succeeded and the ledger write after it has failed,
\* the message has no ledger row and is still unread, so that the next cycle
\* fetches it, reprocesses it and sends the reply again.
C19_SentUnledgeredIsRetried ==
    (/\ run.outcome = "RAISED"
     /\ Made("send_reply") = 1
     /\ Made("mark_email_processed") = 1)
        => /\ RowCount(run.msg) = 0
           /\ run.msg \in unread

\* C20: in every run the order store is consulted only after the classifier
\* has run and the policy engine only after the order store, and a run on a
\* message the classifier flags as spam makes no order-store lookup.
C20_ClassifierBeforeOrderStore ==
    LET OrderStore == { "find_order_by_number", "find_order_by_email" }
    IN  /\ \A i \in DOMAIN calls :
               calls[i] \in OrderStore
                   => /\ \E j \in 1..(i - 1) : calls[j] = "classify_email_intent"
                      /\ \A j \in 1..(i - 1) : calls[j] # "messages.create"
        /\ (run.msg \in MsgIds /\ Classified[run.msg].is_spam)
               => \A i \in DOMAIN calls : calls[i] \notin OrderStore

\* C21: the ledger is append-only: no step of the pipeline, of the dashboard or
\* of the daily summary removes a row the ledger holds or changes one of its
\* fields; a step adds rows or leaves the ledger alone.
C21_LedgerAppendOnly ==
    [][\A r \in BagToSet(ledger) : CopiesIn(r, ledger') >= CopiesIn(r, ledger)]_vars

\* C21's case: the operator has resolved the item of a message the ledger holds
\* a row for, and the pipeline has ledgered another message as well
C21_Witness ==
    /\ \E i \in DOMAIN queue :
           queue[i].status = "resolved" /\ HasRow(queue[i].email_id)
    /\ Cardinality(BagToSet(ledger)) >= 2

\* the order-store calls among cs, in the order they were made
StoreCalls(cs) ==
    SelectSeq(cs, LAMBDA c : c \in { "find_order_by_number", "find_order_by_email" })

\* C22: at most one order snapshot is carried on.  With a number extracted the
\* store is asked by that number first, and by sender email only when that
\* gave nothing; with no number it is asked by sender email only; of the
\* orders found by email only the first is taken; and generate_response is
\* called also when no order was found.
C22_OneOrderNumberFirst ==
    probe.op = "resolve_order" =>
        LET email == probe.args[1]
            okNumber == probe.args[2]
            okEmail == probe.args[3]
            order == probe.result.order
            number == extract_order_number(email.subject \o " " \o email.body)
            byNumber == find_order_by_number(number, okNumber)
            ofSender == SelectSeq(Orders, LAMBDA o : o.email = email.from_email)
            first == IF okEmail /\ ofSender # << >> THEN ofSender[1] ELSE NoOrder
        IN  /\ order.order_context \in { NoOrder } \cup { Orders[i] : i \in DOMAIN Orders }
            /\ StoreCalls(order.calls) =
                  (IF number = NULL THEN << "find_order_by_email" >>
                   ELSE IF byNumber # NoOrder THEN << "find_order_by_number" >>
                   ELSE << "find_order_by_number", "find_order_by_email" >>)
            /\ order.order_context =
                  (IF number # NULL /\ byNumber # NoOrder THEN byNumber ELSE first)
            /\ probe.result.then[1] = "classify_email_intent"

\* C22's case: the number in the text is not in the store, the sender has two
\* orders, and the more recent of them is carried on
C22_Witness ==
    /\ probe.op = "resolve_order"
    /\ probe.args[1].from_email = "amy@mail.com"
    /\ probe.args[1].body = "order #9999 late"
    /\ StoreCalls(probe.result.order.calls)
           = << "find_order_by_number", "find_order_by_email" >>
    /\ probe.result.order.order_context.order_number = "1234"

\* a text's positions where each of the three patterns matches
HashAt(t) == { i \in 1..Len(t) : MatchHash(t, i) # NULL }
OrderAt(t) == { i \in 1..Len(t) : MatchOrder(t, i) # NULL }
BareAt(t) == { i \in 1..Len(t) : MatchBare(t, i) # NULL }
Leftmost(S) == CHOOSE i \in S : \A j \in S : i <= j

\* C23: extract_order_number returns the leftmost match of the hash pattern if
\* that pattern matches anywhere in the text, else the leftmost match of the
\* 'order' pattern if that matches anywhere, else the leftmost match of the
\* bare pattern, else none; what it returns is 4 to 6 digits that stand in the
\* text.
C23_FirstPatternWins ==
    probe.op = "extract_order_number" =>
        LET t == probe.args[1]
            r == probe.result
        IN  /\ r = (IF HashAt(t) # {} THEN MatchHash(t, Leftmost(HashAt(t)))
                    ELSE IF OrderAt(t) # {} THEN MatchOrder(t, Leftmost(OrderAt(t)))
                    ELSE IF BareAt(t) # {} THEN MatchBare(t, Leftmost(BareAt(t)))
                    ELSE NULL)
            /\ r # NULL =>
                  /\ Len(r) \in 4..6
                  /\ \A i \in 1..Len(r) : IsDigit(Ch(r, i))
                  /\ Contains(t, r)

\* C23's case: a bare number stands in the text before a hash-prefixed one, and
\* the hash-prefixed one is returned
C23_Witness ==
    /\ probe.op = "extract_order_number"
    /\ probe.args[1] = "5656#1234"
    /\ probe.result = "1234"

\* the intents, in declaration order, that have a keyword in text
Matching(text) ==
    { i \in DOMAIN intents :
          \E k \in DOMAIN intents[i].keywords : Contains(text, intents[i].keywords[k]) }

\* C24: the classifier says spam, with intent 'spam' and no categorisation,
\* exactly when a spam keyword stands in the lower-cased body, space, subject;
\* if none does, the primary intent is the first intent in declaration order
\* that has a keyword in the text, however many keywords the later intents
\* have there, and 'general' when no intent has one.
C24_SpamThenFirstIntent ==
    probe.op = "classify_email_intent" =>
        LET text == Lower(probe.args[1] \o " " \o probe.args[2])
            spam == \E k \in DOMAIN spam_keywords : Contains(text, spam_keywords[k])
            r == probe.result
        IN  /\ r.is_spam = spam
            /\ spam => r.intent = "spam" /\ r.all_intents = << >>
            /\ ~spam =>
                  r.intent = (IF Matching(text) = {} THEN "general"
                              ELSE intents[Leftmost(Matching(text))].intent)

\* C24's case: a text with one tracking keyword and three return_refund
\* keywords is classified as tracking
C24_Witness ==
    /\ probe.op = "classify_email_intent"
    /\ probe.args[1] = "refund, return, exchange my Tracking"
    /\ probe.result.intent = "tracking"
    /\ probe.result.all_intents = << "tracking", "return_refund" >>

DomainsIn(e) == { i \in DOMAIN blocked_domains : Contains(Lower(e), blocked_domains[i]) }
KeywordsIn(e, n) ==
    { i \in DOMAIN blocked_keywords :
          \/ Contains(Lower(n), blocked_keywords[i])
          \/ Contains(Lower(e), blocked_keywords[i]) }

C27_TokenInsideIsBodyText ==
    probe.op = "generate_response" =>
        LET text == probe.args[1]
            r == probe.result.ai_response
        IN  (/\ Contains(text, "NEEDS_HUMAN_REVIEW:") \/ Contains(text, "SPAM_DETECTED:")
             /\ ~StartsWith(text, "NEEDS_HUMAN_REVIEW:")
             /\ ~StartsWith(text, "SPAM_DETECTED:"))
                => /\ ~r.flag_for_human
                   /\ r.type # "spam"
                   /\ r.should_send
                   /\ r.response = text
                   /\ probe.result.then = "send_reply"

\* C27's case: the escalation token opens the second line of the text
C27_Witness ==
    /\ probe.op = "generate_response"
    /\ probe.args[1] = "Hi\nNEEDS_HUMAN_REVIEW: late"
    /\ probe.result.then = "send_reply"

\* the text after the first line of s ("" when s has one line)
RECURSIVE AfterFirstLine(_)
AfterFirstLine(s) ==
    IF s = "" THEN "" ELSE IF Ch(s, 1) = "\n" THEN From(s, 2) ELSE AfterFirstLine(From(s, 2))

\* C29: for a policy text that starts with NEEDS_HUMAN_REVIEW:, the reason is
\* the rest of the first line after the prefix, trimmed, and the clean body is
\* the text after the first line (trimmed), every later line kept, also when
\* the first line or the prefix stands in the text again.
C29_OnlyFirstLineRemoved ==
    (probe.op = "generate_response" /\ StartsWith(probe.args[1], "NEEDS_HUMAN_REVIEW:")) =>
        LET text == probe.args[1]
            r == probe.result.ai_response
        IN  /\ r.human_review_reason
                  = Strip(From(FirstLine(text), Len("NEEDS_HUMAN_REVIEW:") + 1))
            /\ r.response = Strip(AfterFirstLine(text))

\* C28: once the escalation item of a message is stored, process_email goes on
\* to the ledger write whether the notifier is absent, succeeds or fails: the
\* item is the one the message, its order and the reason determine, the run
\* neither raises nor repeats at the notification, and a run that ends as
\* ESCALATED has left the one flagged ledger row.
C28_NotifierNeverDecides ==
    /\ [][(pc = "add_to_review_queue" /\ queue' # queue)
             => /\ pc' = "review_ledger"
                /\ run' = run
                /\ ledger' = ledger
                /\ queue' = Append(queue,
                       review_item(cur,
                                   IF loc.order_number \notin {NULL, ""}
                                   THEN loc.order_number ELSE "N/A",
                                   loc.ai_response.human_review_reason,
                                   IF MentionsOverdue[loc.ai_response.human_review_reason]
                                   THEN "high" ELSE "medium"))]_vars
    /\ [](run.outcome = "ESCALATED"
             => /\ RowCount(run.msg) = 1
                /\ \A r \in RowsFor(run.msg) : r.flagged_for_review /\ ~r.response_sent
                /\ \E i \in DOMAIN queue : queue[i].email_id = run.msg)

\* C28's case: the notification of an escalation has failed and the run has
\* ended as ESCALATED
C28_Witness ==
    /\ slack
    /\ run.outcome = "ESCALATED"
    /\ Made("notify_human_review_needed") = 1
    /\ Made("send_notification_failed") = 1
    /\ RowCount(run.msg) = 1

\* the handler holds a token whose expiry has not passed
TokenValid ==
    /\ handler.access_token # NULL
    /\ handler.token_expiry # << >>
    /\ clock < handler.token_expiry[1]

\* C30: an authenticate call requests a token only when the handler holds none
\* or the expiry of the one it holds has passed: while the token is valid, a
\* call by whichever operation requests nothing and leaves token and expiry as
\* they are; and a request that fails leaves token and expiry as they were.
C30_TokenRefreshedLazily ==
    /\ [][auth'.requests # auth.requests => ~TokenValid]_vars
    /\ [][(auth' # auth /\ TokenValid)
             => /\ auth'.last = "cached"
                /\ auth'.requests = auth.requests
                /\ handler' = handler]_vars
    /\ [][(auth' # auth /\ auth'.last = "failed") => handler' = handler]_vars

\* C30's case: one token was requested, time has passed, and send_reply's
\* authenticate has found the token still valid
C30_Witness ==
    /\ auth.requests = 1
    /\ auth.caller = "send_reply"
    /\ auth.last = "cached"
    /\ clock > 0
    /\ TokenValid

\* the summaries process run p has sent for date d
SentFor(d, p) ==
    { i \in DOMAIN summary.sent :
          summary.sent[i].date = d /\ summary.sent[i].process = p }

ItemsFor(m) == { i \in DOMAIN queue : queue[i].email_id = m }

\* C32: whatever polling cycles, collaborator failures and crashes have
\* happened, the escalation queue holds at most one item per message id, also
\* when the process failed or died between the queue insert and the ledger
\* write of an escalation.
C32_OneItemPerMessage ==
    \A m \in MsgIds : Cardinality(ItemsFor(m)) <= 1

\* C33: in every reachable state each ledger row with flagged_for_review set
\* has at least one escalation item with its message id, no ledger row has
\* both response_sent and flagged_for_review set, and the rows with intent
\* 'spam' or 'blocked_sender' have neither.
C33_LedgerAgreesWithQueue ==
    \A r \in BagToSet(ledger) :
        /\ r.flagged_for_review => ItemsFor(r.email_id) # {}
        /\ ~(r.response_sent /\ r.flagged_for_review)
        /\ r.intent \in {"spam", "blocked_sender"}
              => ~r.response_sent /\ ~r.flagged_for_review

\* C33's case: the ledger holds an escalated row, a spam row and a blocked
\* sender's row at once
C33_Witness ==
    /\ \E r \in BagToSet(ledger) : r.flagged_for_review
    /\ \E r \in BagToSet(ledger) : r.intent = "spam"
    /\ \E r \in BagToSet(ledger) : r.intent = "blocked_sender"

\* C34: when the polling cycles are scheduled fairly and the collaborators
\* succeed in the end, every unread message gets a ledger row in the end.
C34_UnreadEventuallyLedgered ==
    \A m \in MsgIds : (m \in unread) ~> (RowsFor(m) # {})

\* the current or latest run asked the policy engine, and the call raised
PolicyRaised ==
    /\ run.reply \in DOMAIN PolicyReplies
    /\ PolicyReplies[run.reply].raised
    /\ Made("messages.create") > 0

\* the escalation items of message m whose reason begins with 'AI error:'
ErrorItemsFor(m) ==
    { i \in ItemsFor(m) : StartsWith(queue[i].reason, "AI error:") }

\* the ledger rows of message m that an escalated policy error leaves
ErrorRowsFor(m) ==
    { r \in RowsFor(m) :
          r.flagged_for_review /\ ~r.response_sent /\ r.intent = NULL }

\* C35: a run in which the policy engine call raised goes to the escalation
\* with a reason that begins with 'AI error:' and sends no reply; when it has
\* escalated, the queue holds an item with such a reason for the message and
\* the message's ledger row is flagged, not sent and without intent; and a
\* later run on a message with such a row is skipped as a duplicate, writing
\* nothing.
C35_PolicyErrorIsEscalated ==
    /\ [](PolicyRaised =>
             /\ run.outcome \in {"RUNNING", "ESCALATED", "RAISED"}
             /\ Made("send_reply") = 0
             /\ run.outcome = "RUNNING" =>
                   pc \in {"add_to_review_queue", "review_ledger", "review_read"}
             /\ pc = "add_to_review_queue" =>
                   StartsWith(loc.ai_response.human_review_reason, "AI error:")
             /\ run.outcome = "ESCALATED" =>
                   /\ ErrorItemsFor(run.msg) # {}
                   /\ RowsFor(run.msg) # {}
                   /\ RowsFor(run.msg) = ErrorRowsFor(run.msg))
    /\ [][(pc = "process_email" /\ ErrorRowsFor(cur.id) # {}) =>
             \/ pc' = "idle"
             \/ /\ run'.outcome = "SKIPPED_DUPLICATE"
                /\ run'.msg = cur.id
                /\ UNCHANGED << ledger, queue, unread, sendAttempts >>]_vars

\* C35's case: a message whose policy call raised has been escalated, and a
\* later cycle has skipped it as a duplicate
C35_Witness ==
    /\ run.outcome = "SKIPPED_DUPLICATE"
    /\ ErrorRowsFor(run.msg) # {}
    /\ ErrorItemsFor(run.msg) # {}

\* the policy engine's answers that contain 'ACTION_REQUIRED:' and start with
\* neither directive
ActionReplies ==
    { r \in DOMAIN PolicyReplies :
          /\ ~PolicyReplies[r].raised
          /\ Contains(PolicyReplies[r].text, "ACTION_REQUIRED:")
          /\ ~StartsWith(PolicyReplies[r].text, "NEEDS_HUMAN_REVIEW:")
          /\ ~StartsWith(PolicyReplies[r].text, "SPAM_DETECTED:") }

\* the current or latest run asked the policy engine and got such an answer
ActionRequired ==
    /\ run.reply \in ActionReplies
    /\ Made("messages.create") > 0

\* C36: no run calls update_shipping_address: the only calls to the order
\* store are the two lookups.  A run whose policy text contains
\* 'ACTION_REQUIRED:' and no leading directive goes the way of a plain reply:
\* the text is sent to the customer as it is, with the token in it, and the
\* run ends sent, with a failed send or with an exception, never escalated,
\* dropped or filed as spam.
C36_OrderStoreOnlyRead ==
    /\ Made("update_shipping_address") = 0
    /\ Made("find_order_by_number") + Made("find_order_by_email") <= 2
    /\ ActionRequired =>
          /\ run.outcome \in {"RUNNING", "SENT", "SEND_FAILED", "RAISED"}
          /\ run.outcome = "RUNNING" =>
                /\ pc \in {"send_reply", "sent_read", "sent_ledger"}
                /\ loc.ai_response.needs_action
                /\ loc.ai_response.response = PolicyReplies[run.reply].text
          /\ run.outcome = "SENT" =>
                /\ Made("send_reply") = 1
                /\ \A r \in RowsFor(run.msg) :
                       r.response_sent /\ ~r.flagged_for_review

\* C36's case: a text with the token and no leading directive has been sent to
\* the customer and the run has ended
C36_Witness ==
    /\ ActionRequired
    /\ run.outcome = "SENT"
    /\ Made("find_order_by_number") = 1

====
